---- MODULE Spec2Model ----
(***************************************************************************)
(* Model of batching_problem/definitions.py: the Instance class with its   *)
(* distance model, picklist cost, feasibility check and evaluation.        *)
(***************************************************************************)
EXTENDS Integers, Sequences, FiniteSets, TLC

VARIABLES parameters, batches, stats, ret

vars == <<parameters, batches, stats, ret>>

(***************************************************************************)
(* Bounds of the model.                                                    *)
(***************************************************************************)
\* rows of the distance specification lie in -MaxRow..MaxRow
MaxRow == 3
\* longest picklist handed to picklist_cost in the distance specification
MaxLen == 2

(***************************************************************************)
(* Plain helpers (Python built-ins).                                       *)
(***************************************************************************)
abs(x) == IF x < 0 THEN -x ELSE x

min(a, b) == IF a <= b THEN a ELSE b

max(a, b) == IF a >= b THEN a ELSE b

\* all sequences over S of length 0..n
SeqsUpTo(S, n) == UNION {[1..k -> S] : k \in 0..n}

(***************************************************************************)
(* math.inf: a cost is either a finite integer or positive infinity.       *)
(***************************************************************************)
Fin(n) == [inf |-> FALSE, n |-> n]

Inf == [inf |-> TRUE, n |-> 0]

\* float/int addition with math.inf absorbing
Plus(a, b) == IF a.inf \/ b.inf THEN Inf ELSE Fin(a.n + b.n)

(***************************************************************************)
(* Domain classes.                                                         *)
(***************************************************************************)
Article(id, volume) == [id |-> id, volume |-> volume]

WarehouseItem(id, row, aisle, article, zone) ==
    [id |-> id, row |-> row, aisle |-> aisle, article |-> article, zone |-> zone]

Order(id, positions) == [id |-> id, positions |-> positions]

Batch(orders, picklists) == [orders |-> orders, picklists |-> picklists]

Parameters(min_items, max_orders, max_volume, first_row, last_row) ==
    [min_number_requested_items |-> min_items,
     max_orders_per_batch |-> max_orders,
     max_container_volume |-> max_volume,
     first_row |-> first_row,
     last_row |-> last_row,
     first_aisle |-> 0,
     last_aisle |-> 1]

\* the article slot of the conveyor item is None
None == Article("None", 0)

\* the Instance object (self) as the methods read it
Self == [parameters |-> parameters, batches |-> batches]

(***************************************************************************)
(* Distance model.                                                         *)
(***************************************************************************)
aisle_distance(u, v) == abs(u - v)

row_distance(self, u, v) ==
    LET middle_distance == abs(u) + abs(v) IN
    IF min(u, v) < 0 /\ 0 < max(u, v)
    THEN middle_distance
    ELSE IF u < 0
         THEN min(middle_distance,
                  2 * abs(self.parameters.first_row) - middle_distance)
         ELSE min(middle_distance,
                  2 * self.parameters.last_row - middle_distance)

\* distance without the zone test
distance_NoZoneTest(self, u, v) ==
    Fin(row_distance(self, u.row, v.row) + aisle_distance(u.aisle, v.aisle))

distance(self, u, v) ==
    IF u.zone # v.zone
    THEN Inf
    ELSE Fin(row_distance(self, u.row, v.row) + aisle_distance(u.aisle, v.aisle))

RECURSIVE SumConsecutive(_, _, _)
\* sum(self.distance(picklist[i], picklist[i + 1]) for i in range(len - 1)),
\* summed left to right starting from i (1-based)
SumConsecutive(self, picklist, i) ==
    IF i >= Len(picklist)
    THEN Fin(0)
    ELSE Plus(distance(self, picklist[i], picklist[i + 1]),
              SumConsecutive(self, picklist, i + 1))

\* picklist_cost without the leg back to the conveyor
picklist_cost_NoReturnLeg(self, picklist) ==
    IF Len(picklist) = 0
    THEN Fin(0)
    ELSE LET conveyor_belt == WarehouseItem("conveyor", 0, 0, None, picklist[1].zone) IN
         Plus(distance(self, conveyor_belt, picklist[1]),
              SumConsecutive(self, picklist, 1))

picklist_cost(self, picklist) ==
    IF Len(picklist) = 0
    THEN Fin(0)
    ELSE LET conveyor_belt == WarehouseItem("conveyor", 0, 0, None, picklist[1].zone) IN
         Plus(Plus(distance(self, conveyor_belt, picklist[1]),
                   distance(self, picklist[Len(picklist)], conveyor_belt)),
              SumConsecutive(self, picklist, 1))

(***************************************************************************)
(* Feasibility check.  The value of a call is the returned verdict         *)
(* together with the warnings it logged, or the exception it raised.       *)
(***************************************************************************)
\* one logger.warning of check_feasibility; fields a message does not
\* mention are -1 / "-"
Warning(kind, batch_number, num_picklist, article, actual, permitted) ==
    [kind |-> kind, batch |-> batch_number, picklist |-> num_picklist,
     article |-> article, actual |-> actual, permitted |-> permitted]

\* logger.warning(...); is_valid = False
Warn(acc, w) == [acc EXCEPT !.is_valid = FALSE, !.log = Append(@, w)]

RECURSIVE SumLen(_, _)
\* sum(len(picklist) for picklist in picklists), from index i on
SumLen(picklists, i) ==
    IF i > Len(picklists) THEN 0 ELSE Len(picklists[i]) + SumLen(picklists, i + 1)

RECURSIVE NbrPicklistItems(_, _)
\* sum(len(picklist) for batch in batches for picklist in batch.picklists)
NbrPicklistItems(bs, i) ==
    IF i > Len(bs) THEN 0 ELSE SumLen(bs[i].picklists, 1) + NbrPicklistItems(bs, i + 1)

RECURSIVE Flatten(_, _)
\* the elements of a list of lists, in iteration order
Flatten(lists, i) ==
    IF i > Len(lists) THEN <<>> ELSE lists[i] \o Flatten(lists, i + 1)

\* [article.id for order in batch.orders for article in order.positions]
BatchArticles(batch) ==
    LET positions == Flatten([k \in 1..Len(batch.orders) |-> batch.orders[k].positions], 1)
    IN [k \in 1..Len(positions) |-> positions[k].id]

\* number of occurrences of x in the list s
Count(s, x) == Cardinality({k \in 1..Len(s) : s[k] = x})

\* count_dict after the counting loop: article id -> number ordered
CountDict(articles) ==
    [a \in {articles[k] : k \in 1..Len(articles)} |-> Count(articles, a)]

\* the keys of count_dict in insertion order (first occurrence in articles)
DictKeys(articles) ==
    SelectSeq([k \in 1..Len(articles) |->
                  IF \A j \in 1..(k - 1) : articles[j] # articles[k]
                  THEN articles[k] ELSE "-"],
              LAMBDA a : a # "-")

\* body of the loop over the picked items of one batch; st is
\* [count_dict, acc]
ScanItem(st, item, batch_number) ==
    LET id == item.article.id
        a1 == IF id \notin DOMAIN st.count_dict
              THEN Warn(st.acc, Warning("not_in_orders", batch_number, -1, id, -1, -1))
              ELSE st.acc
    IN IF id \notin DOMAIN st.count_dict
       THEN \* count_dict[item.article.id] -= 1 raises KeyError
            [st EXCEPT !.acc = [a1 EXCEPT !.raised = TRUE]]
       ELSE LET cd == [st.count_dict EXCEPT ![id] = @ - 1] IN
            [count_dict |-> cd,
             acc |-> IF cd[id] < 0
                     THEN Warn(a1, Warning("picked_more", batch_number, -1, id, -1, -1))
                     ELSE a1]

RECURSIVE ScanItems(_, _, _, _)
\* for picklist in batch.picklists: for item in picklist: ...
ScanItems(st, items, i, batch_number) ==
    IF i > Len(items) \/ st.acc.raised
    THEN st
    ELSE ScanItems(ScanItem(st, items[i], batch_number), items, i + 1, batch_number)

RECURSIVE UnderPicked_OffByOne(_, _, _, _, _)
\* the under-picked loop reporting only counts above 1
UnderPicked_OffByOne(acc, keys, i, count_dict, batch_number) ==
    IF i > Len(keys)
    THEN acc
    ELSE UnderPicked_OffByOne(IF count_dict[keys[i]] > 1
                              THEN Warn(acc, Warning("not_picked", batch_number, -1, keys[i],
                                                     count_dict[keys[i]], -1))
                              ELSE acc,
                              keys, i + 1, count_dict, batch_number)

RECURSIVE UnderPicked(_, _, _, _, _)
\* for article, count in count_dict.items(): if count > 0: ...
UnderPicked(acc, keys, i, count_dict, batch_number) ==
    IF i > Len(keys)
    THEN acc
    ELSE UnderPicked(IF count_dict[keys[i]] > 0
                     THEN Warn(acc, Warning("not_picked", batch_number, -1, keys[i],
                                            count_dict[keys[i]], -1))
                     ELSE acc,
                     keys, i + 1, count_dict, batch_number)

RECURSIVE SumVolume(_, _)
\* sum(item.article.volume for item in picklist)
SumVolume(picklist, i) ==
    IF i > Len(picklist) THEN 0
    ELSE picklist[i].article.volume + SumVolume(picklist, i + 1)

\* the picklist rules with the volume limit tested by >=
CheckPicklist_VolumeGE(self, acc, picklist, num_picklist, batch_number) ==
    LET zones == {picklist[k].zone : k \in 1..Len(picklist)}
        a1 == IF Cardinality(zones) > 1
              THEN Warn(acc, Warning("multiple_zones", batch_number, num_picklist, "-", -1, -1))
              ELSE acc
    IN IF SumVolume(picklist, 1) >= self.parameters.max_container_volume
       THEN Warn(a1, Warning("volume", batch_number, num_picklist, "-",
                             SumVolume(picklist, 1), self.parameters.max_container_volume))
       ELSE a1

\* the picklist rules with the volume rule skipped after a zone violation
CheckPicklist_Elif(self, acc, picklist, num_picklist, batch_number) ==
    LET zones == {picklist[k].zone : k \in 1..Len(picklist)}
    IN IF Cardinality(zones) > 1
       THEN Warn(acc, Warning("multiple_zones", batch_number, num_picklist, "-", -1, -1))
       ELSE IF SumVolume(picklist, 1) > self.parameters.max_container_volume
            THEN Warn(acc, Warning("volume", batch_number, num_picklist, "-",
                                   SumVolume(picklist, 1), self.parameters.max_container_volume))
            ELSE acc

\* body of the loop over the picklists of one batch (zone and volume rules)
CheckPicklist(self, acc, picklist, num_picklist, batch_number) ==
    LET zones == {picklist[k].zone : k \in 1..Len(picklist)}
        a1 == IF Cardinality(zones) > 1
              THEN Warn(acc, Warning("multiple_zones", batch_number, num_picklist, "-", -1, -1))
              ELSE acc
    IN IF SumVolume(picklist, 1) > self.parameters.max_container_volume
       THEN Warn(a1, Warning("volume", batch_number, num_picklist, "-",
                             SumVolume(picklist, 1), self.parameters.max_container_volume))
       ELSE a1

RECURSIVE CheckPicklists(_, _, _, _, _)
\* for num_picklist, picklist in enumerate(batch.picklists): ...
CheckPicklists(self, acc, picklists, i, batch_number) ==
    IF i > Len(picklists)
    THEN acc
    ELSE CheckPicklists(self, CheckPicklist(self, acc, picklists[i], i - 1, batch_number),
                        picklists, i + 1, batch_number)

\* body of the loop over the batches
CheckBatch(self, acc, batch, batch_number) ==
    LET a1 == IF Len(batch.orders) > self.parameters.max_orders_per_batch
              THEN Warn(acc, Warning("max_orders", batch_number, -1, "-",
                                     Len(batch.orders), self.parameters.max_orders_per_batch))
              ELSE acc
        articles == BatchArticles(batch)
        scanned == ScanItems([count_dict |-> CountDict(articles), acc |-> a1],
                             Flatten(batch.picklists, 1), 1, batch_number)
    IN IF scanned.acc.raised
       THEN scanned.acc
       ELSE CheckPicklists(self,
                           UnderPicked(scanned.acc, DictKeys(articles), 1,
                                       scanned.count_dict, batch_number),
                           batch.picklists, 1, batch_number)

RECURSIVE CheckBatches(_, _, _)
\* for batch_number, batch in enumerate(self.batches): ...
CheckBatches(self, acc, i) ==
    IF i > Len(self.batches) \/ acc.raised
    THEN acc
    ELSE CheckBatches(self, CheckBatch(self, acc, self.batches[i], i - 1), i + 1)

\* [raised, is_valid, log]: raised = a KeyError left the method, otherwise
\* is_valid is the returned verdict; log lists the warnings in order
check_feasibility(self) ==
    LET picked == NbrPicklistItems(self.batches, 1)
        acc0 == [raised |-> FALSE, is_valid |-> TRUE, log |-> <<>>]
        a1 == IF picked < self.parameters.min_number_requested_items
              THEN Warn(acc0, Warning("fewer_items", -1, -1, "-", picked,
                                      self.parameters.min_number_requested_items))
              ELSE acc0
    IN CheckBatches(self, a1, 1)

(***************************************************************************)
(* Evaluation.                                                             *)
(***************************************************************************)
RECURSIVE SumPicklistCost(_, _, _)
\* sum(self.picklist_cost(picklist) for picklist in picklists), from i on
SumPicklistCost(self, picklists, i) ==
    IF i > Len(picklists)
    THEN Fin(0)
    ELSE Plus(picklist_cost(self, picklists[i]), SumPicklistCost(self, picklists, i + 1))

\* the stats dict evaluate stores when check_feasibility returned `feasible`
evaluate(self, time_elapsed, feasible) ==
    [time_elapsed |-> time_elapsed,
     nbr_picklist_items |-> NbrPicklistItems(self.batches, 1),
     nbr_picklists |-> Len(Flatten([k \in 1..Len(self.batches) |->
                                       self.batches[k].picklists], 1)),
     objective_value |-> SumPicklistCost(self,
                             Flatten([k \in 1..Len(self.batches) |->
                                         self.batches[k].picklists], 1), 1),
     feasible |-> feasible]

(***************************************************************************)
(* The loaded instance: reference data that read() leaves in place.        *)
(***************************************************************************)
\* total size (batches + orders + picklists + picked items) of the batch
\* lists the solver or a solution file supplies
MaxSize == 7

Zones == {"z1", "z2"}

\* the aisles first_aisle..last_aisle
Aisles == {0, 1}

articles == <<Article("a1", 1), Article("a2", 2)>>

warehouse_items ==
    <<WarehouseItem("i1", 1, 0, articles[1], "z1"),
      WarehouseItem("i2", -1, 1, articles[2], "z1"),
      WarehouseItem("i3", 2, 1, articles[1], "z2")>>

orders ==
    <<Order("o1", <<articles[1], articles[2]>>),
      Order("o2", <<articles[1]>>)>>

\* parameters.json of the instances the feasibility specification loads
LoadedParameters ==
    {Parameters(2, 1, 2, -MaxRow, MaxRow), Parameters(0, 2, 3, -MaxRow, MaxRow)}

\* parameters.json of the instances the distance specification loads
RowParameters ==
    {Parameters(0, 2, 3, f, l) : f \in (-MaxRow)..0, l \in 0..MaxRow}

\* the storage slots of a warehouse with the rows of the parameters
Slots(self) ==
    {WarehouseItem(<<z, r, a>>, r, a, articles[1], z) :
        z \in Zones, r \in self.parameters.first_row..self.parameters.last_row,
        a \in Aisles}

Range(s) == {s[k] : k \in 1..Len(s)}

(***************************************************************************)
(* Batches as the solver or a solution file supplies them.                 *)
(***************************************************************************)
RECURSIVE PicklistLists(_)
\* lists of picklists with (number of picklists + number of items) <= w
PicklistLists(w) ==
    IF w < 1
    THEN {<<>>}
    ELSE {<<>>} \cup
         UNION {{<<p>> \o rest : rest \in PicklistLists(w - 1 - Len(p))} :
                   p \in SeqsUpTo(Range(warehouse_items), w - 1)}

\* the order lists a batch can hold: sublists of self.orders
OrderLists ==
    {SelectSeq(orders, LAMBDA o : o.id \in ids) : ids \in SUBSET {o.id : o \in Range(orders)}}

BatchSize(batch) ==
    1 + Len(batch.orders) + Len(batch.picklists) + SumLen(batch.picklists, 1)

\* batches of size <= w
BatchesUpTo(w) ==
    UNION {{Batch(os, pls) : pls \in PicklistLists(w - 1 - Len(os))} :
              os \in {o \in OrderLists : Len(o) <= w - 1}}

RECURSIVE BatchLists(_)
\* lists of batches of total size <= w
BatchLists(w) ==
    IF w < 1
    THEN {<<>>}
    ELSE {<<>>} \cup
         UNION {{<<b>> \o rest : rest \in BatchLists(w - BatchSize(b))} :
                   b \in BatchesUpTo(w)}

RECURSIVE SumSize(_, _)
SumSize(bs, i) == IF i > Len(bs) THEN 0 ELSE BatchSize(bs[i]) + SumSize(bs, i + 1)

\* the "batches" entry of a solution file: ids instead of objects
SolutionFile(bs) ==
    [k \in 1..Len(bs) |->
        [orders |-> {o.id : o \in Range(bs[k].orders)},
         picklists |-> [p \in 1..Len(bs[k].picklists) |->
                           [i \in 1..Len(bs[k].picklists[p]) |-> bs[k].picklists[p][i].id]]]]

\* self.batches after read_batches(path) on the solution file
read_batches(self, solution_file) ==
    self.batches \o
    [k \in 1..Len(solution_file) |->
        Batch(SelectSeq(orders, LAMBDA o : o.id \in solution_file[k].orders),
              [p \in 1..Len(solution_file[k].picklists) |->
                  [i \in 1..Len(solution_file[k].picklists[p]) |->
                      CHOOSE item \in Range(warehouse_items) :
                          item.id = solution_file[k].picklists[p][i]]])]

(***************************************************************************)
(* State machine.                                                          *)
(***************************************************************************)
NoStats == [time_elapsed |-> 0, nbr_picklist_items |-> -1, nbr_picklists |-> -1,
            objective_value |-> Fin(0), feasible |-> FALSE]

NoRet == [op |-> "none", args |-> <<>>, val |-> <<>>]

\* elapsed times handed to evaluate: -1 (evaluate_instances) or a measured one
Times == {-1, 4}

\* Instance(path); instance.read(path)
Init ==
    /\ parameters \in LoadedParameters
    /\ batches = <<>>
    /\ stats = NoStats
    /\ ret = NoRet

InitDist ==
    /\ parameters \in RowParameters
    /\ batches = <<>>
    /\ stats = NoStats
    /\ ret = NoRet

\* instance.batches = greedy_solver(instance, ...) on the freshly read instance
Solve ==
    /\ batches = <<>> /\ ret = NoRet /\ stats = NoStats
    /\ \E bs \in BatchLists(MaxSize) : batches' = bs
    /\ UNCHANGED <<parameters, stats, ret>>

\* instance.read_batches(solution) before the instance is evaluated
ReadBatches ==
    /\ ret = NoRet /\ stats = NoStats
    /\ \E bs \in BatchLists(MaxSize - SumSize(batches, 1)) :
          /\ bs # <<>>
          /\ batches' = read_batches(Self, SolutionFile(bs))
    /\ UNCHANGED <<parameters, stats, ret>>

CallCheckFeasibility ==
    /\ ret' = [op |-> "check_feasibility", args |-> <<>>, val |-> check_feasibility(Self)]
    /\ UNCHANGED <<parameters, batches, stats>>

CallEvaluate ==
    \E t \in Times :
       LET r == check_feasibility(Self) IN
       /\ ret' = [op |-> "evaluate", args |-> <<t>>, val |-> r]
       /\ stats' = IF r.raised THEN stats ELSE evaluate(Self, t, r.is_valid)
       /\ UNCHANGED <<parameters, batches>>

CallRowDistance ==
    /\ ret = NoRet
    /\ \E u, v \in parameters.first_row..parameters.last_row :
          ret' = [op |-> "row_distance", args |-> <<u, v>>, val |-> row_distance(Self, u, v)]
    /\ UNCHANGED <<parameters, batches, stats>>

CallDistance ==
    /\ ret = NoRet
    /\ \E u, v \in Slots(Self) :
          ret' = [op |-> "distance", args |-> <<u, v>>, val |-> distance(Self, u, v)]
    /\ UNCHANGED <<parameters, batches, stats>>

CallPicklistCost ==
    /\ ret = NoRet
    /\ \E p \in SeqsUpTo(Slots(Self), MaxLen) :
          ret' = [op |-> "picklist_cost", args |-> <<p>>, val |-> picklist_cost(Self, p)]
    /\ UNCHANGED <<parameters, batches, stats>>

Next == Solve \/ ReadBatches \/ CallCheckFeasibility \/ CallEvaluate

\* the distance specification makes one call per loaded instance: the three
\* methods read self.parameters only and change nothing
NextDist == CallRowDistance \/ CallDistance \/ CallPicklistCost

\* the feasibility and evaluation life cycle of a loaded instance
Spec == Init /\ [][Next]_vars

\* the distance model and picklist cost over every row configuration
SpecDist == InitDist /\ [][NextDist]_vars

(***************************************************************************)
(* Properties of the distance model (checked under SpecDist).              *)
(***************************************************************************)
\* the dispatch point of a zone: row 0, aisle 0
Dispatch(zone) == WarehouseItem("conveyor", 0, 0, None, zone)

\* the row metric as the documentation states it
SpecifiedRowDistance(first_row, last_row, u, v) ==
    LET direct == abs(u) + abs(v)
        boundary_magnitude == IF u <= 0 /\ v <= 0 THEN abs(first_row) ELSE last_row
    IN IF (u < 0 /\ v > 0) \/ (u > 0 /\ v < 0)
       THEN direct
       ELSE min(direct, 2 * boundary_magnitude - direct)

\* C1: row_distance(u, v) equals the specified metric: |u| + |v| for rows of
\* strictly opposite sign, otherwise min(direct, 2*B - direct) with
\* B = |first_row| when both rows are <= 0 and B = last_row otherwise.
C1_RowDistanceIsSpecifiedMetric ==
    ret.op = "row_distance" =>
        ret.val = SpecifiedRowDistance(parameters.first_row, parameters.last_row,
                                       ret.args[1], ret.args[2])

\* C2: distance is symmetric for items of one zone.
C2_DistanceSymmetric ==
    (ret.op = "distance" /\ ret.args[1].zone = ret.args[2].zone) =>
        ret.val = distance(Self, ret.args[2], ret.args[1])

\* C3: for rows of equal sign or with a zero, 0 <= row_distance(u, v) <=
\* |first_row| + last_row.
C3_RowDistanceBounded ==
    (/\ ret.op = "row_distance"
     /\ ~(\/ (ret.args[1] < 0 /\ ret.args[2] > 0)
          \/ (ret.args[1] > 0 /\ ret.args[2] < 0))) =>
        /\ 0 <= ret.val
        /\ ret.val <= abs(parameters.first_row) + parameters.last_row

\* C4: distance(u, v) is infinite when the zones differ and otherwise is
\* row_distance(u.row, v.row) + |u.aisle - v.aisle|.
C4_DistanceZoneIsolation ==
    ret.op = "distance" =>
        LET u == ret.args[1]
            v == ret.args[2]
        IN IF u.zone # v.zone
           THEN ret.val.inf
           ELSE /\ ~ret.val.inf
                /\ ret.val.n = row_distance(Self, u.row, v.row)
                               + (IF u.aisle >= v.aisle THEN u.aisle - v.aisle
                                  ELSE v.aisle - u.aisle)

C4_Witness ==
    /\ ret.op = "distance"
    /\ ret.args[1].zone # ret.args[2].zone
    /\ ret.val.inf

RECURSIVE LegsUpTo(_, _, _)
\* distance(p[1], p[2]) + ... + distance(p[k-1], p[k])
LegsUpTo(self, p, k) ==
    IF k <= 1 THEN Fin(0)
    ELSE Plus(LegsUpTo(self, p, k - 1), distance(self, p[k - 1], p[k]))

\* the scenario of the documentation: rows -10..10, A(row 5, aisle 0) and
\* B(row -5, aisle 0) in zone "z"
ScenarioSelf == [parameters |-> Parameters(0, 2, 3, -10, 10), batches |-> <<>>]

ScenarioPicklist ==
    <<WarehouseItem("A", 5, 0, articles[1], "z"), WarehouseItem("B", -5, 0, articles[1], "z")>>

\* C5: picklist_cost scores the picklist in the given order: 0 when empty,
\* otherwise dispatch -> first + consecutive legs + last -> dispatch; the
\* documented picklist [A, B] costs 20.
C5_PicklistCostAsGiven ==
    /\ ret.op = "picklist_cost" =>
          LET p == ret.args[1] IN
          ret.val = IF Len(p) = 0
                    THEN Fin(0)
                    ELSE Plus(distance(Self, Dispatch(p[1].zone), p[1]),
                              Plus(LegsUpTo(Self, p, Len(p)),
                                   distance(Self, p[Len(p)], Dispatch(p[1].zone))))
    /\ picklist_cost(ScenarioSelf, ScenarioPicklist) = Fin(20)

C5_Witness ==
    /\ ret.op = "picklist_cost"
    /\ Len(ret.args[1]) = 2
    /\ ret.args[1][1].row > 0 /\ ret.args[1][2].row < 0
    /\ ret.args[1][1].zone = ret.args[1][2].zone
    /\ ~ret.val.inf

\* C6: a single-item picklist [x] costs 2 * distance(dispatch, x), the
\* outbound and the return leg being equal.
C6_SingleItemCostIsTwiceOutbound ==
    (ret.op = "picklist_cost" /\ Len(ret.args[1]) = 1) =>
        LET x == ret.args[1][1]
            outbound == distance(Self, Dispatch(x.zone), x)
        IN /\ ret.val = Plus(outbound, outbound)
           /\ outbound = distance(Self, x, Dispatch(x.zone))

(***************************************************************************)
(* Properties of the feasibility check (checked under Spec).               *)
(***************************************************************************)
\* article ids picked by the picklists of a batch, in scan order
PickedArticles(batch) ==
    LET items == Flatten(batch.picklists, 1)
    IN [k \in 1..Len(items) |-> items[k].article.id]

ArticleIds == {articles[k].id : k \in 1..Len(articles)}

Ordered(batch, a) == Count(BatchArticles(batch), a)

Picked(batch, a) == Count(PickedArticles(batch), a)

\* the indices of the warnings of the log that match
Reports(log, kind, batch_number, num_picklist, article) ==
    {k \in 1..Len(log) : /\ log[k].kind = kind
                         /\ log[k].batch = batch_number
                         /\ log[k].picklist = num_picklist
                         /\ log[k].article = article}

ReportsOfKind(log, kinds) == {k \in 1..Len(log) : log[k].kind \in kinds}

\* every picked article is demanded by an order of its batch
PicksDemanded ==
    \A b \in 1..Len(batches) : \A a \in ArticleIds :
        Picked(batches[b], a) > 0 => Ordered(batches[b], a) > 0

ExactPartition(batch) == \A a \in ArticleIds : Picked(batch, a) = Ordered(batch, a)

UniformZones(batch) ==
    \A p \in 1..Len(batch.picklists) :
        Cardinality({batch.picklists[p][k].zone : k \in 1..Len(batch.picklists[p])}) <= 1

VolumesWithinLimit(batch) ==
    \A p \in 1..Len(batch.picklists) :
        SumVolume(batch.picklists[p], 1) <= parameters.max_container_volume

Checked == ret.op = "check_feasibility"

\* C7: check_feasibility never raises; an item whose article no order of
\* its batch demands yields exactly one extraneous-article report, the scan
\* goes on and the verdict is false.
C7_ViolationsNeverFatal ==
    Checked =>
        /\ ~ret.val.raised
        /\ \A b \in 1..Len(batches) : \A a \in ArticleIds :
              (Picked(batches[b], a) > 0 /\ Ordered(batches[b], a) = 0) =>
                  /\ ~ret.val.is_valid
                  /\ Cardinality(Reports(ret.val.log, "not_in_orders", b - 1, -1, a))
                       = Picked(batches[b], a)

\* C8 as stated: batches whose picklists exactly partition the ordered
\* articles, with one zone per picklist and volumes within the limit, are
\* judged feasible with no violation.
C8_RoundTripAsStated ==
    (/\ Checked
     /\ Len(batches) >= 1
     /\ \A b \in 1..Len(batches) :
           /\ Len(batches[b].orders) >= 1
           /\ ExactPartition(batches[b])
           /\ UniformZones(batches[b])
           /\ VolumesWithinLimit(batches[b])) =>
        /\ ~ret.val.raised
        /\ ret.val.is_valid
        /\ ret.val.log = <<>>

\* C8 (amended): if in addition every batch holds at most
\* max_orders_per_batch orders and the picklists of the instance hold at
\* least min_number_requested_items items, check_feasibility returns true
\* and reports no violation.
C8_RoundTrip ==
    (/\ Checked
     /\ Len(batches) >= 1
     /\ NbrPicklistItems(batches, 1) >= parameters.min_number_requested_items
     /\ \A b \in 1..Len(batches) :
           /\ Len(batches[b].orders) <= parameters.max_orders_per_batch
           /\ ExactPartition(batches[b])
           /\ UniformZones(batches[b])
           /\ VolumesWithinLimit(batches[b])) =>
        /\ ~ret.val.raised
        /\ ret.val.is_valid
        /\ ret.val.log = <<>>

C8_Witness ==
    /\ Checked
    /\ Len(batches) >= 1
    /\ NbrPicklistItems(batches, 1) >= parameters.min_number_requested_items
    /\ \A b \in 1..Len(batches) :
          /\ Len(batches[b].orders) <= parameters.max_orders_per_batch
          /\ ExactPartition(batches[b])
          /\ UniformZones(batches[b])
          /\ VolumesWithinLimit(batches[b])
    /\ \E b \in 1..Len(batches) :
          /\ Len(batches[b].picklists) = 2
          /\ \A p \in 1..2 : Len(batches[b].picklists[p]) >= 1
    /\ ret.val.is_valid

\* batch b lacks exactly one item of article a; every other batch picks
\* exactly what it orders
OneItemRemoved(b, a) ==
    /\ Ordered(batches[b], a) = Picked(batches[b], a) + 1
    /\ \A x \in ArticleIds \ {a} : Picked(batches[b], x) = Ordered(batches[b], x)
    /\ \A c \in (1..Len(batches)) \ {b} : ExactPartition(batches[c])

\* C9: a batch left one required item short gets exactly one under-picked
\* report, naming that article with shortfall 1, no over-picked report, and
\* the verdict false; in general each article ordered k > 0 times more than
\* picked is reported once, with shortfall k.
C9_UnderPickDetection ==
    Checked =>
        /\ \A b \in 1..Len(batches) : \A a \in ArticleIds :
              OneItemRemoved(b, a) =>
                  /\ ~ret.val.raised
                  /\ ~ret.val.is_valid
                  /\ ReportsOfKind(ret.val.log, {"not_picked"})
                       = Reports(ret.val.log, "not_picked", b - 1, -1, a)
                  /\ Cardinality(ReportsOfKind(ret.val.log, {"not_picked"})) = 1
                  /\ \A k \in ReportsOfKind(ret.val.log, {"not_picked"}) :
                        ret.val.log[k].actual = 1
                  /\ ReportsOfKind(ret.val.log, {"picked_more", "not_in_orders"}) = {}
        /\ ~ret.val.raised =>
              \A b \in 1..Len(batches) : \A a \in ArticleIds :
                  Ordered(batches[b], a) > Picked(batches[b], a) =>
                      /\ Cardinality(Reports(ret.val.log, "not_picked", b - 1, -1, a)) = 1
                      /\ \A k \in Reports(ret.val.log, "not_picked", b - 1, -1, a) :
                            ret.val.log[k].actual
                              = Ordered(batches[b], a) - Picked(batches[b], a)

C9_Witness ==
    /\ Checked
    /\ \E b \in 1..Len(batches) : \E a \in ArticleIds :
          /\ OneItemRemoved(b, a)
          /\ Picked(batches[b], a) >= 1
    /\ Cardinality(ReportsOfKind(ret.val.log, {"not_picked"})) = 1

\* C10: when every picked article is demanded by its batch, each rule is
\* reported wherever it is violated (too few items; too many orders in a
\* batch; an article picked more or less often than ordered; a picklist over
\* several zones; a picklist volume above the limit), whatever failed
\* before, and the verdict is true only if nothing was reported.
C10_AllRulesChecked ==
    (Checked /\ PicksDemanded) =>
        LET log == ret.val.log IN
        /\ ~ret.val.raised
        /\ ret.val.is_valid <=> (log = <<>>)
        /\ Cardinality(Reports(log, "fewer_items", -1, -1, "-"))
             = IF NbrPicklistItems(batches, 1) < parameters.min_number_requested_items
               THEN 1 ELSE 0
        /\ \A b \in 1..Len(batches) :
              /\ Cardinality(Reports(log, "max_orders", b - 1, -1, "-"))
                   = IF Len(batches[b].orders) > parameters.max_orders_per_batch
                     THEN 1 ELSE 0
              /\ \A a \in ArticleIds :
                    /\ Cardinality(Reports(log, "picked_more", b - 1, -1, a))
                         = max(0, Picked(batches[b], a) - Ordered(batches[b], a))
                    /\ Cardinality(Reports(log, "not_picked", b - 1, -1, a))
                         = IF Ordered(batches[b], a) > Picked(batches[b], a) THEN 1 ELSE 0
              /\ \A p \in 1..Len(batches[b].picklists) :
                    /\ Cardinality(Reports(log, "multiple_zones", b - 1, p - 1, "-"))
                         = IF Cardinality({batches[b].picklists[p][k].zone :
                                              k \in 1..Len(batches[b].picklists[p])}) > 1
                           THEN 1 ELSE 0
                    /\ Cardinality(Reports(log, "volume", b - 1, p - 1, "-"))
                         = IF SumVolume(batches[b].picklists[p], 1)
                                > parameters.max_container_volume
                           THEN 1 ELSE 0

C10_Witness ==
    /\ Checked /\ PicksDemanded
    /\ Len(batches) = 2
    /\ \E k \in 1..Len(ret.val.log) : ret.val.log[k].batch = 0
    /\ Reports(ret.val.log, "multiple_zones", 1, 0, "-") # {}
    /\ Reports(ret.val.log, "volume", 1, 0, "-") # {}
    /\ ~ret.val.is_valid

(***************************************************************************)
(* Evaluation with reassigned batches (checked under SpecEval).            *)
(***************************************************************************)
\* total size of the batch lists assigned between evaluations
MaxEvalSize == 4

\* instance.batches = ... at any time, also after an evaluation
Reassign ==
    /\ \E bs \in BatchLists(MaxEvalSize) : batches' = bs
    /\ UNCHANGED <<parameters, stats, ret>>

NextEval == Reassign \/ CallEvaluate

\* any sequence of batch assignments and evaluate calls on a loaded instance
SpecEval == Init /\ [][NextEval]_vars

\* all picklists of all batches, in iteration order
AllPicklists(bs) == Flatten([k \in 1..Len(bs) |-> bs[k].picklists], 1)

RECURSIVE CostUpTo(_, _, _)
\* picklist_cost(pls[1]) + ... + picklist_cost(pls[k])
CostUpTo(self, pls, k) ==
    IF k = 0 THEN Fin(0)
    ELSE Plus(CostUpTo(self, pls, k - 1), picklist_cost(self, pls[k]))

\* C11: every step that is not a batch assignment is an evaluate(t) that
\* leaves batches and parameters unchanged and leaves as stats the record
\* {time_elapsed = t, nbr_picklist_items, nbr_picklists, objective_value,
\* feasible} computed from the batches present at the call alone.
C11_StatsPureFunction ==
    [][(ret' # ret \/ stats' # stats) =>
          /\ batches' = batches
          /\ parameters' = parameters
          /\ ret'.op = "evaluate"
          /\ ~ret'.val.raised
          /\ stats' = [time_elapsed |-> ret'.args[1],
                       nbr_picklist_items |-> Len(Flatten(AllPicklists(batches), 1)),
                       nbr_picklists |-> Len(AllPicklists(batches)),
                       objective_value |-> CostUpTo(Self, AllPicklists(batches),
                                                    Len(AllPicklists(batches))),
                       feasible |-> check_feasibility(Self).is_valid]]_vars

(***************************************************************************)
(* Finite cost and the zone rule (checked under Spec).                     *)
(***************************************************************************)
\* the condition of the mixed-zone rule for a picklist
MixedZone(picklist) ==
    Cardinality({picklist[k].zone : k \in 1..Len(picklist)}) > 1

\* C12: picklist_cost(p) is finite exactly when all items of p lie in one
\* zone (an empty picklist included), that is exactly when the mixed-zone
\* rule does not report p; a recorded feasible = true comes with a finite
\* objective_value, and objective_value is infinite exactly when some
\* picklist is mixed-zone.
C12_FiniteCostIffOneZone ==
    /\ \A b \in 1..Len(batches) : \A p \in 1..Len(batches[b].picklists) :
          /\ picklist_cost(Self, batches[b].picklists[p]).inf
               <=> MixedZone(batches[b].picklists[p])
          /\ (ret.op \in {"check_feasibility", "evaluate"} /\ ~ret.val.raised) =>
                (picklist_cost(Self, batches[b].picklists[p]).inf
                   <=> Reports(ret.val.log, "multiple_zones", b - 1, p - 1, "-") # {})
    /\ stats.nbr_picklists >= 0 =>
          /\ stats.feasible => ~stats.objective_value.inf
          /\ stats.objective_value.inf
               <=> \E b \in 1..Len(batches) : \E p \in 1..Len(batches[b].picklists) :
                      MixedZone(batches[b].picklists[p])

C12_Witness ==
    /\ ret.op = "evaluate" /\ ~ret.val.raised
    /\ stats.nbr_picklists >= 2
    /\ stats.objective_value.inf
    /\ \E b \in 1..Len(batches) : \E p, q \in 1..Len(batches[b].picklists) :
          /\ MixedZone(batches[b].picklists[p])
          /\ ~MixedZone(batches[b].picklists[q])
          /\ Len(batches[b].picklists[q]) >= 1

====
